---- MODULE Spec2Model ----
(***************************************************************************)
(* Model of chirtz/snmptools: the rule engine of snmplib.py (Rule.matches, *)
(* Supply.check, Tray.check), the severity aggregation of printerpoller.py *)
(* (apply_rules, check_printer), the polling loop check_printers with its  *)
(* CouchDB records, and the readers of the SNMP walks of snmplib.py        *)
(* (PrinterInfo._get_max_severity_level, PrinterProperties._parse_data).   *)
(*                                                                         *)
(* Python values are modelled as follows.                                  *)
(*  - str: a tuple of one-character strings, so that `a in b` is substring *)
(*    containment and upper()/lower() act per character.                   *)
(*  - None or a value: <<>> for None, <<v>> for the value v.               *)
(*  - dict: a function whose DOMAIN is the set of keys.                    *)
(*  - a call that may raise: [exc |-> "" or the exception, value |-> v].   *)
(***************************************************************************)
EXTENDS Integers, Sequences, FiniteSets, TLC

VARIABLES
    pc,         \* "start" before a call of the rule engine, then the function called
    item,       \* the part handed to the rule engine
    host,       \* the host name handed to the rule engine
    rule_list,  \* the parsed rules of the config file
    out,        \* what the call returned or raised
    device,     \* what the printers answer to the SNMP walks
    hosts,      \* the host list of the running check_printers call
    idx,        \* position of check_printers in hosts
    database,   \* the CouchDB documents: host -> None or the document's "data"
    saved,      \* the database.save calls of the running check_printers call
    clock       \* datetime.now(), counted in polls

vars == <<pc, item, host, rule_list, out, device, hosts, idx, database, saved, clock>>

engine_vars == <<pc, item, host, out>>

poller_vars == <<device, hosts, idx, database, saved, clock>>

(***************************************************************************)
(* Bounds of the model.                                                    *)
(***************************************************************************)
\* longest rule list handed to apply_rules from the small rule pool
MaxRules == 3
\* most parts (supplies and trays together) one device reports
MaxParts == 2
\* number of host polls (database.save calls) of one behaviour
MaxClock == 2
\* longest walk of the alarm codes a device answers
MaxWalk == 2
\* most entries a device answers to the walk of one STRUCTURE key
MaxEntries == 2

(***************************************************************************)
(* Python values.                                                          *)
(***************************************************************************)
None == <<>>

Some(v) == <<v>>

\* Python truthiness of None-or-number: None and 0 are falsy.
Truthy(opt) == opt # None /\ opt[1] # 0

Return(v) == [exc |-> "", value |-> v]

Raise(e, v) == [exc |-> e, value |-> v]

\* a str value and a list value of a config entry (type(x) is str / list);
\* v holds the one str, or the elements of the list
Str(s) == [t |-> "str", v |-> <<s>>]

List(l) == [t |-> "list", v |-> l]

\* `p in s` for two str values
IsSubstring(p, s) ==
    \E i \in 1..(Len(s) + 1) :
        /\ i + Len(p) - 1 <= Len(s)
        /\ SubSeq(s, i, i + Len(p) - 1) = p

Range(f) == {f[x] : x \in DOMAIN f}

SeqsUpTo(S, n) == UNION {[1..k -> S] : k \in 0..n}

Max2(a, b) == IF a >= b THEN a ELSE b

(***************************************************************************)
(* The strings of the model, written out character by character.           *)
(***************************************************************************)
s_p1 == <<"p","1">>
s_p2 == <<"p","2">>
s_p3 == <<"p","3">>
s_hp == <<"h","p">>
s_ready == <<"r","e","a","d","y">>
s_Printer_offline == <<"P","r","i","n","t","e","r"," ","o","f","f","l","i","n","e">>
s_toner == <<"t","o","n","e","r">>
s_Toner == <<"T","o","n","e","r">>
s_ink == <<"i","n","k">>
s_tonerCartridge == <<"t","o","n","e","r","C","a","r","t","r","i","d","g","e">>
s_staples == <<"s","t","a","p","l","e","s">>
s_tray == <<"t","r","a","y">>
s_black == <<"b","l","a","c","k">>
s_cyan == <<"c","y","a","n">>
s_Black == <<"B","l","a","c","k">>
s_black_toner == <<"b","l","a","c","k"," ","t","o","n","e","r">>
s_Black_Toner == <<"B","l","a","c","k"," ","T","o","n","e","r">>
s_Cyan_Ink == <<"C","y","a","n"," ","I","n","k">>
s_Staples == <<"S","t","a","p","l","e","s">>
s_Tray_1 == <<"T","r","a","y"," ","1">>

\* str.upper() / str.lower() on one character of the alphabet in use
UPPER == [c \in {"a","b","c","d","e","g","i","k","l","n","o","p","r","s","t","y"} |->
            CASE c = "a" -> "A" [] c = "b" -> "B" [] c = "c" -> "C" [] c = "d" -> "D"
              [] c = "e" -> "E" [] c = "g" -> "G" [] c = "i" -> "I" [] c = "k" -> "K"
              [] c = "l" -> "L" [] c = "n" -> "N" [] c = "o" -> "O" [] c = "p" -> "P"
              [] c = "r" -> "R" [] c = "s" -> "S" [] c = "t" -> "T" [] c = "y" -> "Y"]

Upper(c) == IF c \in DOMAIN UPPER THEN UPPER[c] ELSE c

Lower(c) == IF \E l \in DOMAIN UPPER : UPPER[l] = c
            THEN CHOOSE l \in DOMAIN UPPER : UPPER[l] = c
            ELSE c

LowerStr(s) == [i \in 1..Len(s) |-> Lower(s[i])]

(***************************************************************************)
(* Domain entities (snmplib.py).  A part carries the attributes its        *)
(* STRUCTURE walks fill in; class, unit and paper only feed display        *)
(* strings and are left out.                                               *)
(***************************************************************************)
\* Supply.TYPES, the entries the model's devices report
TYPES == (3 :> s_toner) @@ (5 :> s_ink) @@ (21 :> s_tonerCartridge) @@ (32 :> s_staples)

Supply(name, type, capacity, level) ==
    [kind |-> "supply", name |-> name, type |-> type,
     capacity |-> capacity, level |-> level]

Tray(name, level, status) ==
    [kind |-> "tray", name |-> name, level |-> level, status |-> status]

get_name(o) == o.name

get_type_str(o) == IF o.kind = "supply" THEN TYPES[o.type] ELSE s_tray

(***************************************************************************)
(* Rules (snmplib.py, class Rule).  A config entry `data` is a record      *)
(* whose optional keys hold None when the key is absent from the YAML.     *)
(***************************************************************************)
RuleData(name, match, stop, threshold, status, severity) ==
    [name |-> name, match |-> match, stop |-> stop,
     threshold |-> threshold, status |-> status, severity |-> severity]

\* Rule.__init__: defaults for the keys the config leaves out
Rule(data) ==
    [name      |-> data.name,
     match     |-> data.match,
     stop      |-> IF data.stop = None THEN FALSE ELSE data.stop[1],
     threshold |-> data.threshold,
     status    |-> data.status,
     severity  |-> IF data.severity = None THEN 2 ELSE data.severity[1]]

\* Rule.parse_rules
parse_rules(rules) == [i \in 1..Len(rules) |-> Rule(rules[i])]

\* `if not self.match`: no match section, or an empty one
no_match(r) == r.match = None \/ DOMAIN r.match[1] = {}

\* the host test of Rule.matches (a str must equal h, a list must hold h)
match_host(m, h) ==
    ~ /\ "host" \in DOMAIN m
      /\ \/ m["host"].t = "str" /\ m["host"].v[1] # h
         \/ m["host"].t = "list" /\ h \notin Range(m["host"].v)

\* faulty variant: names compared without regard to case
match_name_AnyCase(m, o) ==
    "name" \in DOMAIN m => IsSubstring(LowerStr(m["name"].v[1]), LowerStr(get_name(o)))

\* the name test of Rule.matches, for a str entry
match_name(m, o) ==
    "name" \in DOMAIN m => IsSubstring(m["name"].v[1], get_name(o))

\* the type test of Rule.matches (a str, or any element of a list)
match_type(m, o) ==
    ~ /\ "type" \in DOMAIN m
      /\ \/ /\ m["type"].t = "str"
            /\ ~IsSubstring(m["type"].v[1], get_type_str(o))
         \/ /\ m["type"].t = "list"
            /\ ~\E t \in Range(m["type"].v) : IsSubstring(t, get_type_str(o))

\* Rule.matches(o, h).  `self.match["name"] not in o.get_name()` raises
\* TypeError when the name entry is a list: str.__contains__ takes a str.
matches(r, o, h) ==
    IF no_match(r)
    THEN Return(FALSE)
    ELSE LET m == r.match[1] IN
         IF ~match_host(m, h)
         THEN Return(FALSE)
         ELSE IF "name" \in DOMAIN m /\ m["name"].t # "str"
         THEN Raise("TypeError", FALSE)
         ELSE IF ~match_name(m, o)
         THEN Return(FALSE)
         ELSE IF ~match_type(m, o)
         THEN Return(FALSE)
         ELSE Return(TRUE)

\* (float(level) / capacity) * 100 >= threshold, cross-multiplied.  The
\* model's levels, capacities and thresholds are values for which the double
\* arithmetic of the source gives the exact comparison; capacity is never 0.
PercentAtLeast(level, capacity, threshold) ==
    IF capacity > 0
    THEN level * 100 >= threshold * capacity
    ELSE level * 100 <= threshold * capacity

\* Supply.check(rule)
Supply_check(s, rule) ==
    IF s.level = -3 THEN TRUE
    ELSE IF s.level = -2 THEN TRUE
    ELSE IF ~Truthy(rule.threshold) THEN FALSE
    ELSE PercentAtLeast(s.level, s.capacity, rule.threshold[1])

\* Tray.check(rule)
Tray_check(t, rule) ==
    IF ~Truthy(rule.status) THEN FALSE
    ELSE t.status <= rule.status[1]

\* item.check(r): the method of the part's class
check(o, rule) == IF o.kind = "supply" THEN Supply_check(o, rule) ELSE Tray_check(o, rule)

(***************************************************************************)
(* printerpoller.py: apply_rules.                                          *)
(***************************************************************************)
\* faulty variant: the severity of the last failed rule instead of the greatest
next_status_Last(status, r, ok) ==
    IF ~ok THEN r.severity ELSE status

\* `if not ok and r.severity > status: status = r.severity`
next_status(status, r, ok) ==
    IF ~ok /\ r.severity > status THEN r.severity ELSE status

\* faulty variant: a stop rule ends the loop only when the part fails it
stops_WhenFailed(r, ok) == r.stop /\ ~ok

\* `if r.stop: break`, reached for a matching rule
stops(r, ok) == r.stop

RECURSIVE apply_rules_loop(_, _, _, _, _)
\* the for loop of apply_rules from rule i on, with the running status
apply_rules_loop(o, h, rules, i, status) ==
    IF i > Len(rules)
    THEN Return(status)
    ELSE LET r == rules[i]
             m == matches(r, o, h)
         IN  IF m.exc # ""
             THEN Raise(m.exc, 0)
             ELSE IF m.value
             THEN LET ok == check(o, r)
                      st == next_status(status, r, ok)
                  IN  IF stops(r, ok)
                      THEN Return(st)
                      ELSE apply_rules_loop(o, h, rules, i + 1, st)
             ELSE apply_rules_loop(o, h, rules, i + 1, status)

\* apply_rules(item, host, rule_list)
apply_rules(o, h, rules) == apply_rules_loop(o, h, rules, 1, 0)

(***************************************************************************)
(* printercheck.py: SNMPWalker.check_rules, the rule loop for one part.    *)
(* A printed line "[%s] (%s) => %s" is the triple of its three fields.     *)
(***************************************************************************)
\* Rule.SEVERITY
SEVERITY == (0 :> "OK") @@ (1 :> "WARN") @@ (2 :> "CRIT")

RECURSIVE check_rules_loop(_, _, _, _, _, _)
check_rules_loop(s, h, rules, sev, i, printed) ==
    IF i > Len(rules)
    THEN Return(printed)
    ELSE LET r == rules[i]
             m == matches(r, s, h)
         IN  IF m.exc # ""
             THEN Raise(m.exc, printed)
             ELSE IF m.value
             THEN LET ok == check(s, r)
                      severity == IF ok THEN 0 ELSE r.severity
                      status == IF ok THEN SEVERITY[0] ELSE SEVERITY[severity]
                      pr == IF severity >= sev
                            THEN Append(printed, <<status, r.name, get_name(s)>>)
                            ELSE printed
                  IN  IF r.stop
                      THEN Return(pr)
                      ELSE check_rules_loop(s, h, rules, sev, i + 1, pr)
             ELSE check_rules_loop(s, h, rules, sev, i + 1, printed)

\* the lines check_rules(sev) prints for the part s of host h
check_rules(s, h, rules, sev) == check_rules_loop(s, h, rules, sev, 1, <<>>)

(***************************************************************************)
(* snmplib.py: PrinterInfo.  Of the general info the model keeps what the  *)
(* poller reads or replaces: name, alerts and severity (serial, location,  *)
(* description, contact and status are passed through unread).             *)
(***************************************************************************)
RECURSIVE max_alarm(_, _, _)
\* the loop of _get_max_severity_level: m = max over min(int(value), 4)
max_alarm(walk, i, m) ==
    IF i > Len(walk)
    THEN m
    ELSE LET val == IF walk[i] < 4 THEN walk[i] ELSE 4
         IN  max_alarm(walk, i + 1, IF val > m THEN val ELSE m)

\* faulty variant: a critical alarm wins over a warning
get_max_severity_level_CriticalWins(walk) ==
    IF \E i \in DOMAIN walk : walk[i] = 3 THEN 2
    ELSE IF \E i \in DOMAIN walk : walk[i] >= 4 THEN 1
    ELSE 0

\* PrinterInfo._get_max_severity_level: alarm 4 -> 1, alarm 3 -> 2, rest 0
get_max_severity_level(walk) ==
    LET m == max_alarm(walk, 1, 0)
    IN  IF m = 4 THEN 1 ELSE IF m = 3 THEN 2 ELSE 0

\* PrinterInfo.get_data() of the device dev answering at host h
get_info(dev) ==
    [name |-> dev.name, alerts |-> dev.alerts,
     severity |-> get_max_severity_level(dev.alarms)]

(***************************************************************************)
(* snmplib.py: SNMPWalkable.add_data and PrinterProperties._parse_data.    *)
(* An SNMP entry is [snmp_type, value], the value being the str easysnmp   *)
(* hands over; an entity is the function from the attributes of its        *)
(* STRUCTURE to None or the value set by add_data.                         *)
(***************************************************************************)
\* Supply.STRUCTURE and Tray.STRUCTURE in insertion order: <<key, attribute>>
STRUCTURE(typ) ==
    IF typ = "Supply"
    THEN << <<"1.3.6.1.2.1.43.11.1.1.4", "class">>, <<"1.3.6.1.2.1.43.11.1.1.5", "type">>,
            <<"1.3.6.1.2.1.43.11.1.1.6", "name">>, <<"1.3.6.1.2.1.43.11.1.1.7", "unit">>,
            <<"1.3.6.1.2.1.43.11.1.1.8", "capacity">>, <<"1.3.6.1.2.1.43.11.1.1.9", "level">> >>
    ELSE << <<"1.3.6.1.2.1.43.8.2.1.10", "level">>, <<"1.3.6.1.2.1.43.8.2.1.11", "status">>,
            <<"1.3.6.1.2.1.43.8.2.1.12", "paper">>, <<"1.3.6.1.2.1.43.8.2.1.18", "name">> >>

\* typ(): SNMPWalkable.__init__ sets every attribute of STRUCTURE to None
new_item(typ) == [a \in {STRUCTURE(typ)[k][2] : k \in DOMAIN STRUCTURE(typ)} |-> None]

DIGITS == <<"0", "1", "2", "3", "4", "5", "6", "7", "8", "9">>

\* the character "\x00"
NUL == "NUL"

RECURSIVE int_digits(_, _, _)
\* the number the digits s[i..] continue, n being the number so far
int_digits(s, i, n) ==
    IF i > Len(s)
    THEN n
    ELSE int_digits(s, i + 1, 10 * n + (CHOOSE d \in 0..9 : DIGITS[d + 1] = s[i]))

\* int(value) of a str of digits with an optional sign
int(s) == IF s[1] = "-" THEN 0 - int_digits(s, 2, 0) ELSE int_digits(s, 1, 0)

RECURSIVE lstrip(_)
lstrip(s) == IF s # <<>> /\ s[1] = " " THEN lstrip(Tail(s)) ELSE s

RECURSIVE rstrip(_)
rstrip(s) == IF s # <<>> /\ s[Len(s)] = " " THEN rstrip(SubSeq(s, 1, Len(s) - 1)) ELSE s

\* str.strip()
strip(s) == rstrip(lstrip(s))

RECURSIVE remove_nul(_)
\* str.replace("\x00", "")
remove_nul(s) ==
    IF s = <<>> THEN <<>>
    ELSE IF s[1] = NUL THEN remove_nul(Tail(s))
    ELSE <<s[1]>> \o remove_nul(Tail(s))

\* the value add_data stores for an entry
entry_value(entry) ==
    IF entry.snmp_type = "INTEGER" THEN int(entry.value)
    ELSE remove_nul(strip(entry.value))

\* SNMPWalkable.add_data(key, entry): setattr of the attribute of the key
add_data(it, attr, entry) == [it EXCEPT ![attr] = Some(entry_value(entry))]

\* faulty variant: only the first key of STRUCTURE creates entities, the
\* entries of a later key beyond them are dropped
add_entry_FirstKeyOnly(items, typ, k, ix, entry) ==
    IF ix > Len(items) - 1
    THEN IF k = 1
         THEN Append(items, add_data(new_item(typ), STRUCTURE(typ)[k][2], entry))
         ELSE items
    ELSE [items EXCEPT ![ix + 1] = add_data(items[ix + 1], STRUCTURE(typ)[k][2], entry)]

\* the body of the inner loop of _parse_data for entry ix (the idx of
\* enumerate, counted from 0) of the walk of key k of STRUCTURE
add_entry(items, typ, k, ix, entry) ==
    IF ix > Len(items) - 1
    THEN Append(items, add_data(new_item(typ), STRUCTURE(typ)[k][2], entry))
    ELSE [items EXCEPT ![ix + 1] = add_data(items[ix + 1], STRUCTURE(typ)[k][2], entry)]

RECURSIVE walk_key(_, _, _, _, _)
\* `for idx, entry in enumerate(self.session.walk(key))` from entry ix on
walk_key(items, typ, k, walk, ix) ==
    IF ix >= Len(walk)
    THEN items
    ELSE walk_key(add_entry(items, typ, k, ix, walk[ix + 1]), typ, k, walk, ix + 1)

RECURSIVE parse_keys(_, _, _, _)
\* `for key in typ.STRUCTURE` from key k on
parse_keys(items, typ, walks, k) ==
    IF k > Len(STRUCTURE(typ))
    THEN items
    ELSE parse_keys(walk_key(items, typ, k, walks[STRUCTURE(typ)[k][1]], 0), typ, walks, k + 1)

\* PrinterProperties._parse_data(typ) on a session that answers walks
parse_data(typ, walks) == parse_keys(<<>>, typ, walks, 1)

(***************************************************************************)
(* printerpoller.py: colors.  COLOR.BLACK, CYAN, LIGHT_CYAN, MAGENTA and   *)
(* LIGHT_MAGENTA end in a comma and are 1-tuples, the others are strings.  *)
(***************************************************************************)
Color(hex, tuple) == [hex |-> hex, tuple |-> tuple]

COLOR_BLACK == Color("#555555", TRUE)
COLOR_CYAN == Color("#00bfff", TRUE)
COLOR_DEFAULT == Color("#888787", FALSE)
HEADER_WARNING == "#F6AE24"
HEADER_CRITICAL == "#DC143C"
HEADER_WARNING_PRINTER == "#FFD700"
HEADER_DEFAULT == "#eeeeee"

\* COLOR_MAPPING in insertion order, the keys the model's names can hold
COLOR_MAPPING == << <<s_black, COLOR_BLACK>>, <<s_cyan, COLOR_CYAN>> >>

\* get_color(item): the first key contained in the lower-cased name
get_color(o) ==
    LET name == LowerStr(get_name(o))
        hits == {i \in DOMAIN COLOR_MAPPING : IsSubstring(COLOR_MAPPING[i][1], name)}
    IN  IF hits = {}
        THEN COLOR_DEFAULT
        ELSE COLOR_MAPPING[CHOOSE i \in hits : \A j \in hits : i <= j][2]

\* faulty variant: the device's own warning is looked at before the parts
get_header_color_SelfFirst(max_status, status_severity) ==
    IF status_severity = 1 THEN HEADER_WARNING_PRINTER
    ELSE IF max_status = 1 THEN HEADER_WARNING
    ELSE IF max_status = 2 \/ max_status = 4 THEN HEADER_CRITICAL
    ELSE HEADER_DEFAULT

\* get_header_color(max_status, status_severity)
get_header_color(max_status, status_severity) ==
    IF max_status = 1 THEN HEADER_WARNING
    ELSE IF max_status = 2 \/ max_status = 4 THEN HEADER_CRITICAL
    ELSE IF status_severity = 1 THEN HEADER_WARNING_PRINTER
    ELSE HEADER_DEFAULT

(***************************************************************************)
(* printerpoller.py: the display name of a part,                           *)
(* " ".join([word[:1].upper() + word[1:] for word in name.split()]).       *)
(***************************************************************************)
RECURSIVE split(_, _, _, _)
\* str.split(): the words between runs of blanks
split(s, i, words, cur) ==
    IF i > Len(s)
    THEN IF cur = <<>> THEN words ELSE Append(words, cur)
    ELSE IF s[i] = " "
    THEN split(s, i + 1, IF cur = <<>> THEN words ELSE Append(words, cur), <<>>)
    ELSE split(s, i + 1, words, Append(cur, s[i]))

RECURSIVE join(_, _)
\* " ".join(words[i:])
join(words, i) ==
    IF i > Len(words) THEN <<>>
    ELSE IF i = Len(words) THEN words[i]
    ELSE words[i] \o <<" ">> \o join(words, i + 1)

display_name(name) ==
    LET words == split(name, 1, <<>>, <<>>)
    IN  join([k \in 1..Len(words) |-> <<Upper(words[k][1])>> \o Tail(words[k])], 1)

(***************************************************************************)
(* printerpoller.py: check_printer.                                        *)
(***************************************************************************)
\* s.get_data() with rgb, status and name set (lines 135-152).  A tray's own
\* "status" key is overwritten by the severity.
part_record(s, status) ==
    IF s.kind = "supply"
    THEN [name |-> display_name(get_name(s)), type |-> s.type, capacity |-> s.capacity,
          level |-> s.level, rgb |-> get_color(s), status |-> status]
    ELSE [name |-> display_name(get_name(s)), level |-> s.level,
          rgb |-> get_color(s), status |-> status]

\* faulty variant: the name is recorded only for parts that raise an alert
seen_names_Flagged(name_list, name, status) ==
    IF status > 0 THEN name_list \cup {name} ELSE name_list

\* name_list.add(name)
seen_names(name_list, name, status) == name_list \cup {name}

RECURSIVE check_parts(_, _, _, _, _)
\* the loop `for s in supplies + trays` from part i on; acc holds
\* out_supplies, out_trays, max_status, err_parts and name_list.  The rule
\* lists of a poll hold rules whose match name is a str, so apply_rules
\* returns.
check_parts(parts, h, rules, i, acc) ==
    IF i > Len(parts)
    THEN acc
    ELSE LET s == parts[i]
             name == get_name(s)
         IN  IF name \in acc.name_list
             THEN check_parts(parts, h, rules, i + 1, acc)
             ELSE LET typ == get_type_str(s)
                      status == apply_rules(s, h, rules).value
                      rec == part_record(s, status)
                  IN  check_parts(parts, h, rules, i + 1,
                        [out_supplies |-> IF typ = s_tray THEN acc.out_supplies
                                          ELSE Append(acc.out_supplies, rec),
                         out_trays |-> IF typ = s_tray THEN Append(acc.out_trays, rec)
                                       ELSE acc.out_trays,
                         max_status |-> IF status > acc.max_status THEN status
                                        ELSE acc.max_status,
                         err_parts |-> IF status > 0
                                       THEN Append(acc.err_parts, <<name, status>>)
                                       ELSE acc.err_parts,
                         name_list |-> seen_names(acc.name_list, name, status)])

RECURSIVE sorted_by_severity(_, _)
\* sorted(err_parts[1..n], key=lambda elem: elem[1]): stable, ascending
sorted_by_severity(err_parts, n) ==
    IF n = 0
    THEN <<>>
    ELSE LET done == sorted_by_severity(err_parts, n - 1)
             e == err_parts[n]
             k == Cardinality({j \in DOMAIN done : done[j][2] <= e[2]})
         IN  SubSeq(done, 1, k) \o <<e>> \o SubSeq(done, k + 1, Len(done))

reversed(l) == [k \in 1..Len(l) |-> l[Len(l) + 1 - k]]

\* the error summary (lines 161-170); a string is its format and arguments
str_err_parts(err_parts) ==
    IF Len(err_parts) = 0
    THEN [fmt |-> "", args |-> <<>>]
    ELSE IF Len(err_parts) = 1
    THEN [fmt |-> "Alert for %s", args |-> <<err_parts[1][1]>>]
    ELSE [fmt |-> "Alert for %s and %d more failures(s)",
          args |-> <<err_parts[1][1], Len(err_parts) - 1>>]

\* check_printer(h, rule_list) on a device that answers dev
check_printer(h, dev, rules) ==
    LET info == get_info(dev)
        acc == check_parts(dev.supplies \o dev.trays, h, rules, 1,
                 [out_supplies |-> <<>>, out_trays |-> <<>>, max_status |-> 0,
                  err_parts |-> <<>>, name_list |-> {}])
        errs == reversed(sorted_by_severity(acc.err_parts, Len(acc.err_parts)))
    IN  [info |-> [name |-> info.name, alerts |-> info.alerts,
                   severity |-> info.severity,
                   rgb |-> get_header_color(acc.max_status, info.severity),
                   max_status |-> Max2(acc.max_status, info.severity),
                   err_parts |-> errs,
                   str_err_parts |-> str_err_parts(errs)],
         supplies |-> acc.out_supplies,
         trays |-> acc.out_trays]

(***************************************************************************)
(* Inputs.                                                                 *)
(***************************************************************************)
HOSTS == {s_p1, s_p2}

\* the parts handed to single rules
Supplies ==
    {Supply(n, t, cl[1], cl[2]) :
        n \in {s_Black_Toner, s_black_toner}, t \in {21, 32},
        cl \in {<<200, 150>>, <<200, -3>>, <<100, -2>>, <<100, 50>>, <<100, 0>>, <<-2, 50>>}}

Trays == {Tray(s_Tray_1, 100, st) : st \in {0, 3, 4}}

Items == Supplies \cup Trays

\* the match sections: every combination of an absent, str or list entry
MatchHosts == {None, Some(Str(s_p1)), Some(List(<<s_p2, s_p3>>))}

MatchNames == {None, Some(Str(s_Toner)), Some(Str(s_toner)), Some(List(<<s_Black, s_toner>>))}

MatchTypes == {None, Some(Str(s_toner)), Some(Str(s_staples)), Some(Str(s_tray)),
               Some(List(<<s_toner, s_ink>>))}

\* the dict with the keys whose entry is present
Dict(h, n, t) ==
    [k \in (IF h = None THEN {} ELSE {"host"}) \cup (IF n = None THEN {} ELSE {"name"})
           \cup (IF t = None THEN {} ELSE {"type"}) |->
        IF k = "host" THEN h[1] ELSE IF k = "name" THEN n[1] ELSE t[1]]

Matches == {None} \cup {Some(Dict(h, n, t)) : h \in MatchHosts, n \in MatchNames, t \in MatchTypes}

Thresholds == {None, Some(0), Some(70), Some(75), Some(80)}

Statuses == {None, Some(0), Some(3), Some(5)}

\* single rules: every match section, and every threshold and status bound
MatchRules == {RuleData("m", m, None, Some(70), Some(3), None) : m \in Matches}

CheckRules ==
    {RuleData("c", Some(Dict(None, None, Some(List(<<s_toner, s_staples, s_tray>>)))),
              None, th, st, None) : th \in Thresholds, st \in Statuses}

\* the rules of the longer lists
TonerOrTray == Some(Dict(None, None, Some(List(<<s_toner, s_tray>>))))

RulePool ==
    { RuleData("warn70", Some(Dict(None, None, Some(Str(s_toner)))), None, Some(70), None, Some(1)),
      RuleData("crit70", TonerOrTray, None, Some(70), Some(5), None),
      RuleData("crit80", Some(Dict(None, None, Some(Str(s_toner)))), None, Some(80), None, None),
      RuleData("warn80stop", TonerOrTray, Some(TRUE), Some(80), Some(3), Some(1)),
      RuleData("ok70stop", TonerOrTray, Some(TRUE), Some(70), Some(5), None),
      RuleData("staples80stop", Some(Dict(None, None, Some(Str(s_staples)))), Some(TRUE),
               Some(80), None, Some(1)),
      RuleData("bare", TonerOrTray, None, None, None, Some(1)) }

PoolItems == {Supply(s_Black_Toner, 21, 200, 150), Supply(s_Staples, 32, 100, -3),
              Tray(s_Tray_1, 100, 4)}

(***************************************************************************)
(* The rule engine, called on its own: the inputs are drawn at the start   *)
(* and one call is made.                                                   *)
(***************************************************************************)
NoDevice == [name |-> <<>>, alerts |-> <<>>, alarms |-> <<>>, supplies |-> <<>>, trays |-> <<>>]

InitEngine ==
    /\ pc = "start"
    /\ \/ /\ item \in Items
          /\ host \in HOSTS
          /\ \E d \in MatchRules \cup CheckRules : rule_list = parse_rules(<<d>>)
       \/ /\ item \in PoolItems
          /\ host = s_p1
          /\ \E l \in SeqsUpTo(RulePool, MaxRules) : rule_list = parse_rules(l)
    /\ out = None
    /\ device = NoDevice
    /\ hosts = <<>>
    /\ idx = 1
    /\ database = [h \in HOSTS |-> None]
    /\ saved = <<>>
    /\ clock = 0

\* r.matches(item, host) on the first rule
CallMatches ==
    /\ pc = "start"
    /\ Len(rule_list) = 1
    /\ pc' = "matches"
    /\ out' = matches(rule_list[1], item, host)
    /\ UNCHANGED <<item, host, rule_list, poller_vars>>

\* item.check(r) on the first rule
CallCheck ==
    /\ pc = "start"
    /\ Len(rule_list) = 1
    /\ pc' = "check"
    /\ out' = Return(check(item, rule_list[1]))
    /\ UNCHANGED <<item, host, rule_list, poller_vars>>

\* apply_rules(item, host, rule_list)
CallApplyRules ==
    /\ pc = "start"
    /\ pc' = "apply_rules"
    /\ out' = apply_rules(item, host, rule_list)
    /\ UNCHANGED <<item, host, rule_list, poller_vars>>

\* the rule loop of SNMPWalker.check_rules(sev) for the part
CallCheckRules ==
    /\ pc = "start"
    /\ \E sev \in 0..2 :
          /\ pc' = "check_rules"
          /\ out' = check_rules(item, host, rule_list, sev)
    /\ UNCHANGED <<item, host, rule_list, poller_vars>>

NextEngine == CallMatches \/ CallCheck \/ CallApplyRules \/ CallCheckRules

SpecEngine == InitEngine /\ [][NextEngine]_vars

(***************************************************************************)
(* The functions that read the walks of a session, called on their own:    *)
(* the answers of the device are drawn at the start and one call is made.  *)
(***************************************************************************)
\* prtAlertSeverityLevel codes a device reports
AlarmCodes == {1, 3, 4, 5}

\* entry i of the walk of key k of STRUCTURE: an integer made of k and i
\* (negative for a level), or for a name a text with blanks around it and a
\* NUL inside
Entry(typ, k, i) ==
    LET attr == STRUCTURE(typ)[k][2]
    IN  IF attr \in {"name", "paper"}
        THEN [snmp_type |-> "OCTETSTR", value |-> <<" ", "n", DIGITS[i + 1], NUL, " ">>]
        ELSE IF attr = "level"
        THEN [snmp_type |-> "INTEGER", value |-> <<"-", DIGITS[i + 1]>>]
        ELSE [snmp_type |-> "INTEGER", value |-> <<DIGITS[k + 1], DIGITS[i + 1]>>]

\* the answers to the walks of the keys of STRUCTURE: every key with its
\* own number of entries
Tables(typ) ==
    {[key \in {STRUCTURE(typ)[k][1] : k \in DOMAIN STRUCTURE(typ)} |->
        LET k == CHOOSE j \in DOMAIN STRUCTURE(typ) : STRUCTURE(typ)[j][1] = key
        IN  [i \in 1..n[k] |-> Entry(typ, k, i)]] :
     n \in [DOMAIN STRUCTURE(typ) -> 0..MaxEntries]}

NoTable == [key \in {} |-> <<>>]

InitWalk ==
    /\ pc = "session"
    /\ \/ /\ item = None
          /\ device \in {[alarms |-> a, walks |-> NoTable] : a \in SeqsUpTo(AlarmCodes, MaxWalk)}
       \/ \E typ \in {"Supply", "Tray"} :
             /\ item = Some(typ)
             /\ device \in {[alarms |-> <<>>, walks |-> t] : t \in Tables(typ)}
    /\ host = None
    /\ rule_list = <<>>
    /\ out = None
    /\ hosts = <<>>
    /\ idx = 1
    /\ database = [h \in HOSTS |-> None]
    /\ saved = <<>>
    /\ clock = 0

\* PrinterInfo._get_max_severity_level(session)
CallGetMaxSeverityLevel ==
    /\ pc = "session"
    /\ item = None
    /\ pc' = "get_max_severity_level"
    /\ out' = Return(get_max_severity_level(device.alarms))
    /\ UNCHANGED <<item, host, rule_list, poller_vars>>

\* PrinterProperties._parse_data(typ)
CallParseData ==
    /\ pc = "session"
    /\ item # None
    /\ pc' = "_parse_data"
    /\ out' = Return(parse_data(item[1], device.walks))
    /\ UNCHANGED <<item, host, rule_list, poller_vars>>

NextWalk == CallGetMaxSeverityLevel \/ CallParseData

SpecWalk == InitWalk /\ [][NextWalk]_vars

(***************************************************************************)
(* printerpoller.py: check_printers and the script around it.  The devices *)
(* answer the walks with the same values throughout a behaviour; a host    *)
(* either connects or raises EasySNMPConnectionError, poll by poll.        *)
(***************************************************************************)
SupplyPool == {Supply(s_black_toner, 21, 200, 150), Supply(s_black_toner, 21, 200, 20),
               Supply(s_Cyan_Ink, 5, 100, 30)}

TrayPool == {Tray(s_Tray_1, 100, 0), Tray(s_black_toner, 50, 4)}

AlarmWalks == {<<>>, <<4>>, <<3>>}

DeviceReports ==
    {[name |-> s_hp, alerts |-> s_ready, alarms |-> a, supplies |-> su, trays |-> tr] :
        a \in AlarmWalks,
        su \in SeqsUpTo(SupplyPool, MaxParts),
        tr \in SeqsUpTo(TrayPool, MaxParts)}

\* the rules of the config files
Configs ==
    { << RuleData("toner low", Some(Dict(None, None, Some(Str(s_toner)))),
                  None, Some(20), None, None),
         RuleData("toner", Some(Dict(None, None, Some(List(<<s_toner, s_ink>>)))),
                  None, Some(50), None, Some(1)),
         RuleData("tray", Some(Dict(None, None, Some(Str(s_tray)))),
                  None, None, Some(3), Some(1)) >>,
      << RuleData("p1", Some(Dict(Some(Str(s_p1)), None, None)),
                  Some(TRUE), Some(80), Some(5), None) >>,
      << RuleData("jam", Some(Dict(None, None, Some(Str(s_tray)))),
                  None, None, Some(3), Some(4)) >> }

\* the host lists of the config files and of the command line: every
\* host at most once
HostLists ==
    {l \in SeqsUpTo(HOSTS, Cardinality(HOSTS)) :
        l # <<>> /\ \A i, j \in DOMAIN l : i # j => l[i] # l[j]}

\* the info written for a host that does not connect (line 206)
offline_info(dev) ==
    [max_status |-> 2, name |-> dev, alerts |-> s_Printer_offline, rgb |-> HEADER_CRITICAL]

\* dataset["data"]["info"]["checked"] = now
set_checked(data, now) ==
    [data EXCEPT !["info"] = ("checked" :> now) @@ data["info"]]

\* dataset["data"]["info"] = info: the other keys of the dict stay
set_info(data, info) ==
    [k \in DOMAIN data \cup {"info"} |-> IF k = "info" THEN info ELSE data[k]]

\* the dataset check_printers starts from: a new document with empty data,
\* or the document of the database
get_dataset(dev) == IF database[dev] = None THEN <<>> ELSE database[dev][1]

Init ==
    /\ pc = "poller"
    /\ item = None
    /\ host = None
    /\ out = None
    /\ \E c \in Configs : rule_list = parse_rules(c)
    /\ device \in {d \in DeviceReports : Len(d.supplies) + Len(d.trays) <= MaxParts}
    /\ hosts = <<>>
    /\ idx = 1
    /\ database = [h \in HOSTS |-> None]
    /\ saved = <<>>
    /\ clock = 0

\* the script is run: check_printers(db, hosts, rules) starts on a host list
Main ==
    /\ pc = "poller"
    /\ idx > Len(hosts)
    /\ clock < MaxClock
    /\ hosts' \in HostLists
    /\ idx' = 1
    /\ saved' = <<>>
    /\ UNCHANGED <<engine_vars, rule_list, device, database, clock>>

\* faulty variant: the connection error ends the loop, nothing is saved
PollOffline_Abort ==
    /\ pc = "poller"
    /\ idx <= Len(hosts)
    /\ clock < MaxClock
    /\ idx' = Len(hosts) + 1
    /\ clock' = clock + 1
    /\ UNCHANGED <<engine_vars, rule_list, device, hosts, database, saved>>

\* one round of the loop of check_printers for a host that connects
PollOnline ==
    /\ pc = "poller"
    /\ idx <= Len(hosts)
    /\ clock < MaxClock
    /\ LET dev == hosts[idx]
           data == set_checked(check_printer(dev, device, rule_list), clock + 1)
       IN  /\ database' = [database EXCEPT ![dev] = Some(data)]
           /\ saved' = Append(saved, [id |-> dev, data |-> data, failed |-> FALSE])
    /\ idx' = idx + 1
    /\ clock' = clock + 1
    /\ UNCHANGED <<engine_vars, rule_list, device, hosts>>

\* one round of the loop for a host that raises EasySNMPConnectionError
PollOffline ==
    /\ pc = "poller"
    /\ idx <= Len(hosts)
    /\ clock < MaxClock
    /\ LET dev == hosts[idx]
           data == set_checked(set_info(get_dataset(dev), offline_info(dev)), clock + 1)
       IN  /\ database' = [database EXCEPT ![dev] = Some(data)]
           /\ saved' = Append(saved, [id |-> dev, data |-> data, failed |-> TRUE])
    /\ idx' = idx + 1
    /\ clock' = clock + 1
    /\ UNCHANGED <<engine_vars, rule_list, device, hosts>>

Next == Main \/ PollOnline \/ PollOffline

Spec == Init /\ [][Next]_vars

(***************************************************************************)
(* Properties of the rule engine (SpecEngine).                             *)
(***************************************************************************)
SetMax(S) == CHOOSE x \in S : \A y \in S : y <= x

\* rule i of the list applies to the part
Matching(i) == matches(rule_list[i], item, host) = Return(TRUE)

\* rule i is the first rule with stop set that applies to the part
FirstStop(i) ==
    /\ Matching(i) /\ rule_list[i].stop
    /\ \A j \in 1..(i - 1) : ~(Matching(j) /\ rule_list[j].stop)

\* the rules apply_rules gets to: those with no applying stop rule before them
Evaluated == {i \in DOMAIN rule_list : \A j \in 1..(i - 1) : ~(Matching(j) /\ rule_list[j].stop)}

TailsAfter(k) ==
    {SubSeq(rule_list, 1, k) \o t : t \in SeqsUpTo({Rule(d) : d \in RulePool}, 1)}

\* rule_list without rule i
Without(i) == SubSeq(rule_list, 1, i - 1) \o SubSeq(rule_list, i + 1, Len(rule_list))

\* C2: once a rule with stop set matches the part the iteration ends there,
\* failed or not: the result (and the lines check_rules prints) is the same
\* for every rule list that agrees up to the first matching stop rule; a
\* stop rule that does not match does not end the iteration: the result is
\* the one of the list without it.
C2_StopEndsIteration ==
    /\ pc = "apply_rules" =>
          /\ \A k \in DOMAIN rule_list : FirstStop(k) =>
                \A l \in TailsAfter(k) : apply_rules(item, host, l) = out
          /\ \A i \in DOMAIN rule_list :
                (rule_list[i].stop /\ matches(rule_list[i], item, host) = Return(FALSE)) =>
                    apply_rules(item, host, Without(i)) = out
    /\ pc = "check_rules" =>
          \A k \in DOMAIN rule_list : FirstStop(k) =>
             \E sev \in 0..2 :
                \A l \in TailsAfter(k) \cup {rule_list} : check_rules(item, host, l, sev) = out

\* a matching stop rule the part passes, followed by a rule the part fails:
\* severity 0; and a stop rule that does not match, followed by a rule the
\* part fails, which is counted
C2_Witness ==
    /\ pc = "apply_rules" /\ Len(rule_list) = 2
    /\ \/ /\ FirstStop(1) /\ check(item, rule_list[1])
          /\ Matching(2) /\ ~check(item, rule_list[2]) /\ rule_list[2].severity > 0
          /\ out = Return(0)
       \/ /\ rule_list[1].stop /\ ~Matching(1)
          /\ Matching(2) /\ ~check(item, rule_list[2]) /\ rule_list[2].severity = 2
          /\ out = Return(2)

\* the match section of the first rule, when it has one
TheMatch == rule_list[1].match[1]

HostHolds ==
    "host" \in DOMAIN TheMatch =>
        \/ TheMatch["host"].t = "str" /\ TheMatch["host"].v[1] = host
        \/ TheMatch["host"].t = "list" /\ \E x \in Range(TheMatch["host"].v) : x = host

TypeHolds ==
    "type" \in DOMAIN TheMatch =>
        \E x \in Range(TheMatch["type"].v) : IsSubstring(x, get_type_str(item))

C4_NameList ==
    (/\ pc = "matches" /\ rule_list[1].match # None /\ "name" \in DOMAIN TheMatch
     /\ TheMatch["name"].t = "list") =>
        out = Return(/\ HostHolds
                     /\ \E n \in Range(TheMatch["name"].v) : IsSubstring(n, item.name)
                     /\ TypeHolds)

\* C5 as stated: Supply.check is true for level -3 and -2; for another level
\* it is false without a threshold, and with a threshold t (0 included) true
\* exactly when level / capacity * 100 >= t.
C5_SupplyCheck ==
    (pc = "check" /\ item.kind = "supply") =>
        out.value = IF item.level \in {-3, -2} THEN TRUE
                    ELSE IF rule_list[1].threshold = None THEN FALSE
                    ELSE PercentAtLeast(item.level, item.capacity, rule_list[1].threshold[1])

\* C6 as stated: Tray.check is false without a status bound, and with a
\* bound b (0 included) true exactly when the tray's status code is <= b.
C6_TrayCheck ==
    (pc = "check" /\ item.kind = "tray") =>
        out.value = IF rule_list[1].status = None THEN FALSE
                    ELSE item.status <= rule_list[1].status[1]

\* rule_list with the severity of every rule without threshold set to 0, so
\* that these rules can end the iteration but cannot raise the result
Unflagging ==
    [i \in DOMAIN rule_list |->
        IF rule_list[i].threshold = None THEN [rule_list[i] EXCEPT !.severity = 0]
        ELSE rule_list[i]]

NoParts == [out_supplies |-> <<>>, out_trays |-> <<>>, max_status |-> 0,
            err_parts |-> <<>>, name_list |-> {}]

\* C7 as stated: for a supply whose level is neither -3 nor -2 a rule without
\* threshold never raises the severity apply_rules returns and never puts
\* the supply into err_parts; it acts through its stop flag only.
C7_NoThresholdNoFlag ==
    (/\ pc = "apply_rules" /\ out.exc = ""
     /\ item.kind = "supply" /\ item.level \notin {-3, -2}) =>
        /\ out = apply_rules(item, host, Unflagging)
        /\ check_parts(<<item>>, host, rule_list, 1, NoParts).err_parts
             = check_parts(<<item>>, host, Unflagging, 1, NoParts).err_parts

(***************************************************************************)
(* Properties of the poller (Spec).                                        *)
(***************************************************************************)
\* the parts of the device in the order check_printer walks them
Parts == device.supplies \o device.trays

\* the positions holding the first part of their name
FirstOfName == {i \in DOMAIN Parts : \A j \in 1..(i - 1) : Parts[j].name # Parts[i].name}

\* the k-th smallest element of a set of positions
Nth(S, k) == CHOOSE i \in S : Cardinality({j \in S : j < i}) = k - 1

\* the severity of part i under the rules, and its output record
StatusOf(h, i) == apply_rules(Parts[i], h, rule_list).value

RecordOf(h, i) == part_record(Parts[i], StatusOf(h, i))

\* the output records of the positions S, in walk order
RecordsOf(h, S) == [k \in 1..Cardinality(S) |-> RecordOf(h, Nth(S, k))]

\* C8: check_printer keeps, for every raw name walked over supplies followed
\* by trays, exactly the record of the first part of that name; the later
\* parts of the name (a tray named like an earlier supply too) appear in
\* neither output list and add nothing to max_status or err_parts.
C8_FirstOfNameOnly ==
    \A e \in Range(saved) : ~e.failed =>
        /\ e.data.supplies = RecordsOf(e.id, {i \in FirstOfName : Parts[i].kind = "supply"})
        /\ e.data.trays = RecordsOf(e.id, {i \in FirstOfName : Parts[i].kind = "tray"})
        /\ Len(e.data.supplies) + Len(e.data.trays) = Cardinality({Parts[i].name : i \in DOMAIN Parts})
        /\ Range(e.data.info.err_parts)
             = {<<Parts[i].name, StatusOf(e.id, i)>> : i \in {j \in FirstOfName : StatusOf(e.id, j) > 0}}
        /\ e.data.info.max_status
             = SetMax({e.data.info.severity} \cup {StatusOf(e.id, i) : i \in FirstOfName})

\* a walk with a supply that passes every rule, then a tray of the same name
\* that would raise an alert if it were checked: nothing is reported
C8_Witness ==
    \E e \in Range(saved) :
        /\ ~e.failed
        /\ Len(Parts) = 2 /\ Parts[1].kind = "supply" /\ Parts[2].kind = "tray"
        /\ Parts[1].name = Parts[2].name
        /\ StatusOf(e.id, 1) = 0 /\ StatusOf(e.id, 2) > 0
        /\ Len(e.data.supplies) = 1 /\ e.data.trays = <<>>
        /\ e.data.info.err_parts = <<>>

\* C9: a connection failure never ends the batch: the hosts before idx have
\* been saved exactly once each, in input order, a failing host with the
\* offline info, the others with the full result of check_printer, each
\* with its check time.
C9_EveryHostSaved ==
    /\ Len(saved) = idx - 1
    /\ idx <= Len(hosts) + 1
    /\ \A i \in DOMAIN saved :
          /\ saved[i].id = hosts[i]
          /\ database[hosts[i]] # None
          /\ "checked" \in DOMAIN saved[i].data.info
          /\ IF saved[i].failed
             THEN saved[i].data.info
                    = ("checked" :> saved[i].data.info.checked) @@ offline_info(hosts[i])
             ELSE saved[i].data
                    = set_checked(check_printer(hosts[i], device, rule_list),
                                  saved[i].data.info.checked)

\* a batch of two hosts is through: the first failed to connect, the second
\* was checked, both are saved
C9_Witness ==
    /\ Len(hosts) = 2 /\ idx = 3
    /\ saved[1].failed /\ ~saved[2].failed
    /\ saved[1].id = hosts[1] /\ saved[2].id = hosts[2]
    /\ database[hosts[2]] = Some(saved[2].data)

\* C10 as stated: the record saved for a host that fails to connect is the
\* degraded record only: the offline info with the check time, and no
\* supplies or trays, whatever the database held before.
C10_DegradedOnly ==
    \A e \in Range(saved) : e.failed =>
        /\ e.data.info = ("checked" :> e.data.info.checked) @@ offline_info(e.id)
        /\ \A k \in DOMAIN e.data \ {"info"} : e.data[k] = <<>>

\* the retained parts the rules flag for host h: first of their name, severity > 0
Violations(h) == {i \in FirstOfName : StatusOf(h, i) > 0}

\* C11 as stated: err_parts lists exactly the retained parts of severity
\* greater than 0, by non-increasing severity, its first entry having the
\* highest severity; str_err_parts is "" for no violation, "Alert for X" for
\* one and "Alert for X and N more failure(s)", N the number of violations
\* less one, for more, X being the name of the first entry.
C11_ErrorSummary ==
    \A e \in Range(saved) : ~e.failed =>
        LET errs == e.data.info.err_parts
            n == Cardinality(Violations(e.id))
        IN  /\ Len(errs) = n
            /\ Range(errs) = {<<Parts[i].name, StatusOf(e.id, i)>> : i \in Violations(e.id)}
            /\ \A k \in 1..(Len(errs) - 1) : errs[k][2] >= errs[k + 1][2]
            /\ \A k \in DOMAIN errs : errs[1][2] >= errs[k][2]
            /\ e.data.info.str_err_parts =
                 IF n = 0 THEN [fmt |-> "", args |-> <<>>]
                 ELSE IF n = 1 THEN [fmt |-> "Alert for %s", args |-> <<errs[1][1]>>]
                 ELSE [fmt |-> "Alert for %s and %d more failure(s)",
                       args |-> <<errs[1][1], n - 1>>]

\* the greatest severity the rules give a retained part of the device (0
\* without parts)
MaxPartSeverity(h) == SetMax({0} \cup {StatusOf(h, i) : i \in FirstOfName})

\* C12: the header color of a checked host's record follows the greatest
\* part severity m and the device's self-reported severity s: critical for
\* m = 2 or m = 4, else warning for m = 1, else printer-warning for s = 1,
\* else the default color; so m = 0 and s = 0 give the default color.
C12_HeaderColor ==
    \A e \in Range(saved) : ~e.failed =>
        LET m == MaxPartSeverity(e.id)
            s == get_max_severity_level(device.alarms)
        IN  /\ e.data.info.rgb =
                 IF m = 2 \/ m = 4 THEN HEADER_CRITICAL
                 ELSE IF m = 1 THEN HEADER_WARNING
                 ELSE IF s = 1 THEN HEADER_WARNING_PRINTER
                 ELSE HEADER_DEFAULT
            /\ (m = 0 /\ s = 0) => e.data.info.rgb = HEADER_DEFAULT

\* a device that reports a warning of its own and has a part of severity 2:
\* the header is critical
C12_Witness ==
    \E e \in Range(saved) :
        /\ ~e.failed
        /\ MaxPartSeverity(e.id) = 2
        /\ e.data.info.severity = 1
        /\ e.data.info.rgb = HEADER_CRITICAL

(***************************************************************************)
(* Properties of the functions reading the walks (SpecWalk).               *)
(***************************************************************************)
\* the greatest alarm code of the walk, 0 for an empty walk
MaxAlarmCode == SetMax({0} \cup Range(device.alarms))

KeyOf(typ, k) == STRUCTURE(typ)[k][1]

AttrOf(typ, k) == STRUCTURE(typ)[k][2]

\* C14: _parse_data aligns the walks by position and drops no value: it
\* returns as many entities as the longest walk has entries; the attribute
\* of entity i for a key holds the i-th value walked for that key when the
\* walk has one, and None exactly when it has none, whether the walk of a
\* later key is shorter or longer than the walk of the first key.
C14_AlignedByIndex ==
    pc = "_parse_data" =>
        LET typ == item[1]
            items == out.value
        IN  /\ Len(items) = SetMax({0} \cup {Len(device.walks[KeyOf(typ, k)]) :
                                              k \in DOMAIN STRUCTURE(typ)})
            /\ \A i \in DOMAIN items : \A k \in DOMAIN STRUCTURE(typ) :
                  LET walk == device.walks[KeyOf(typ, k)]
                  IN  /\ i <= Len(walk) => items[i][AttrOf(typ, k)] = Some(entry_value(walk[i]))
                      /\ items[i][AttrOf(typ, k)] = None <=> i > Len(walk)

\* trays whose first key (level) is walked with one entry, the status with
\* none and the name with two: two entities, the second without level, both
\* without status, each with its own name
C14_Witness ==
    /\ pc = "_parse_data" /\ item = Some("Tray")
    /\ Len(device.walks[KeyOf("Tray", 1)]) = 1
    /\ Len(device.walks[KeyOf("Tray", 2)]) = 0
    /\ Len(device.walks[KeyOf("Tray", 4)]) = 2
    /\ Len(out.value) = 2
    /\ out.value[1]["level"] = Some(-1) /\ out.value[2]["level"] = None
    /\ out.value[1]["status"] = None /\ out.value[2]["status"] = None
    /\ out.value[1]["name"] = Some(<<"n", "1">>) /\ out.value[2]["name"] = Some(<<"n", "2">>)

====
